---- MODULE Spec2Model ----
(***************************************************************************)
(* A model of server/mailer.js: the Mailer class (transport resolution,    *)
(* sendMail, the seven dispatcher operations, sendTemplate) together with  *)
(* the retrying queue and its worker that sendTemplate feeds.              *)
(*                                                                         *)
(* JavaScript runs each async function synchronously up to its first       *)
(* await; every action below is one such run-to-completion step.           *)
(***************************************************************************)
EXTENDS Naturals, Sequences, FiniteSets

VARIABLES
  env,          \* process.env, fixed for the process lifetime
  pc,           \* position of the module-level `new Mailer()` / loadTransport
  testAccount,  \* the promise of nodemailer.createTestAccount()
  transporter,  \* this.transporter
  loads,        \* number of loadTransport invocations
  assigns,      \* number of assignments to this.transporter
  log,          \* entries written through debug("emails")
  mails,        \* sendMail invocations, in call order
  dispatches,   \* dispatcher-operation invocations, each with the call it belongs to
  templates,    \* sendTemplate invocations, in call order
  jobs          \* the jobs of emailsQueue, in the order they were added

vars == <<env, pc, testAccount, transporter, loads, assigns, log, mails, dispatches, templates, jobs>>

---------------------------------------------------------------------------
(* Bounds of the model *)

MaxOps == 1          \* calls a caller makes: sendMail, a dispatcher operation, sendTemplate
MaxSignins == 2      \* calls of signin in the behaviours that compare two of them

---------------------------------------------------------------------------
(* Values *)

Unset == "<unset>"          \* an environment variable that is not defined
Undefined == "<undefined>"  \* the JavaScript value undefined
Null == [kind |-> "null"]   \* a transporter field that was never assigned

\* an object-valued option or property that is undefined
NoObject == [undefined |-> TRUE]

\* JavaScript truthiness of an environment variable: undefined and "" are falsy
Truthy(v) == v # Unset /\ v # ""

\* the environments: every combination of each variable being defined or not,
\* and those where a variable is defined as the empty string
Envs ==
  [ NODE_ENV         : {"development", "production"},
    SMTP_HOST        : {Unset, "smtp.example.com"},
    SMTP_USERNAME    : {Unset, "mailuser"},
    SENTRY_DSN       : {Unset, "https://sentry.example/1"},
    SMTP_PORT        : {"465"},
    SMTP_PASSWORD    : {"secret"},
    SMTP_SECURE      : {Unset},
    SMTP_TLS_CIPHERS : {Unset},
    SMTP_FROM_EMAIL  : {"hello@acme.example"},
    SMTP_REPLY_EMAIL : {Unset} ]
  \cup
  [ NODE_ENV         : {"development", "production"},
    SMTP_HOST        : {""},
    SMTP_USERNAME    : {""},
    SENTRY_DSN       : {""},
    SMTP_PORT        : {"465"},
    SMTP_PASSWORD    : {"secret"},
    SMTP_SECURE      : {Unset},
    SMTP_TLS_CIPHERS : {Unset},
    SMTP_FROM_EMAIL  : {"hello@acme.example"},
    SMTP_REPLY_EMAIL : {Unset} ]

\* the environments that vary every variable the transport configuration and
\* the envelope read
ConfigEnvs ==
  [ NODE_ENV         : {"development", "production"},
    SMTP_HOST        : {Unset, "", "smtp.example.com"},
    SMTP_USERNAME    : {Unset, "", "mailuser"},
    SENTRY_DSN       : {Unset},
    SMTP_PORT        : {"465"},
    SMTP_PASSWORD    : {"secret"},
    SMTP_SECURE      : {Unset, "", "true", "false"},
    SMTP_TLS_CIPHERS : {Unset, "", "TLSv1.2"},
    SMTP_FROM_EMAIL  : {Unset, "hello@acme.example"},
    SMTP_REPLY_EMAIL : {Unset, "", "reply@acme.example"} ]

\* the value of process.env.X in an expression: undefined when X is not defined
Value(v) == IF v = Unset THEN Undefined ELSE v

\* const useTestEmailService = NODE_ENV === "development" && !SMTP_USERNAME
useTestEmailService ==
  env.NODE_ENV = "development" /\ ~Truthy(env.SMTP_USERNAME)

\* an smtpConfig whose secure flag only looks at SMTP_SECURE being "true"
SmtpConfigSecureIgnoresMode ==
  [ host |-> env.SMTP_HOST,
    port |-> Value(env.SMTP_PORT),
    secure |-> env.SMTP_SECURE = "true",
    auth |-> IF Truthy(env.SMTP_USERNAME)
             THEN [user |-> env.SMTP_USERNAME, pass |-> Value(env.SMTP_PASSWORD)]
             ELSE NoObject,
    tls |-> IF env.SMTP_TLS_CIPHERS # Unset
            THEN [ciphers |-> env.SMTP_TLS_CIPHERS]
            ELSE NoObject ]

\* the smtpConfig loadTransport builds when SMTP_HOST is set
SmtpConfig ==
  [ host |-> env.SMTP_HOST,
    port |-> Value(env.SMTP_PORT),
    secure |-> IF env.SMTP_SECURE # Unset
               THEN env.SMTP_SECURE = "true"
               ELSE env.NODE_ENV = "production",
    auth |-> IF Truthy(env.SMTP_USERNAME)
             THEN [user |-> env.SMTP_USERNAME, pass |-> Value(env.SMTP_PASSWORD)]
             ELSE NoObject,
    tls |-> IF env.SMTP_TLS_CIPHERS # Unset
            THEN [ciphers |-> env.SMTP_TLS_CIPHERS]
            ELSE NoObject ]

\* the smtpConfig loadTransport builds for the test account
EtherealConfig ==
  [ host |-> "smtp.ethereal.email", port |-> 587, secure |-> FALSE,
    auth |-> [user |-> "testAccount.user", pass |-> "testAccount.pass"] ]

\* the two transports nodemailer.createTransport is asked for
SmtpTransport == [kind |-> "smtp", config |-> SmtpConfig]
EtherealTransport == [kind |-> "ethereal", config |-> EtherealConfig]

\* failures a transport's sendMail can raise
SendErrors == {"ECONNREFUSED", "EAUTH"}

\* export type EmailTypes
EmailTypes == {"welcome", "export", "invite", "signin"}

\* the methods of Mailer that render and send one notification
DispatcherOps ==
  { "welcome", "exportSuccess", "exportFailure", "invite", "signin",
    "documentNotification", "collectionNotification" }

\* type tags a caller may hand to sendTemplate: the dispatcher names and a
\* tag nothing knows
TemplateTypes == DispatcherOps \cup {"bogus"}

\* characters of the titles that are not ASCII
RightSingleQuote == "U+2019"
LeftDoubleQuote == "U+201C"
RightDoubleQuote == "U+201D"

\* option bags: a complete one, a second differing in recipient and token, and
\* the empty bag that sendTemplate's default `opts = {}` produces
FullOpts ==
  [ to |-> "a@x.com", teamUrl |-> "https://acme.example", id |-> "exp-42",
    actorName |-> "Jane", teamName |-> "Acme", token |-> "T1",
    document |-> [title |-> "Plan"], collection |-> [name |-> "Docs"],
    actor |-> [name |-> "Jane"], eventName |-> "published" ]

OtherOpts == [FullOpts EXCEPT !.to = "b@x.com", !.token = "T2"]

EmptyOpts ==
  [ to |-> Undefined, teamUrl |-> Undefined, id |-> Undefined,
    actorName |-> Undefined, teamName |-> Undefined, token |-> Undefined,
    document |-> NoObject, collection |-> NoObject,
    actor |-> NoObject, eventName |-> Undefined ]

OptsBags == {FullOpts, EmptyOpts}

---------------------------------------------------------------------------
(* The message each dispatcher operation builds *)

\* reading a property of undefined throws a TypeError while the argument of
\* this.sendMail(...) is still being built
RenderThrows(op, opts) ==
  \/ op = "documentNotification"
     /\ (opts.document = NoObject \/ opts.actor = NoObject)
  \/ op = "collectionNotification"
     /\ (opts.collection = NoObject \/ opts.actor = NoObject)

\* subjects that put the team before the actor and the event before the name
TitleSwapped(op, opts) ==
  CASE op = "welcome" -> <<"Welcome to Outline">>
    [] op = "exportSuccess" -> <<"Your requested export">>
    [] op = "exportFailure" -> <<"Your requested export">>
    [] op = "invite" ->
         << opts.teamName, " invited you to join ", opts.actorName,
            RightSingleQuote, "s knowledge base" >>
    [] op = "signin" -> <<"Magic signin link">>
    [] op = "documentNotification" ->
         << LeftDoubleQuote, opts.eventName, RightDoubleQuote, " ",
            opts.document.title >>
    [] op = "collectionNotification" ->
         << LeftDoubleQuote, opts.eventName, RightDoubleQuote, " ",
            opts.collection.name >>

\* the subject each dispatcher operation gives its message.  A subject is the
\* sequence of its segments: each interpolated value, each typographic quote
\* and each run of literal text between them is one segment.
Title(op, opts) ==
  CASE op = "welcome" -> <<"Welcome to Outline">>
    [] op = "exportSuccess" -> <<"Your requested export">>
    [] op = "exportFailure" -> <<"Your requested export">>
    [] op = "invite" ->
         << opts.actorName, " invited you to join ", opts.teamName,
            RightSingleQuote, "s knowledge base" >>
    [] op = "signin" -> <<"Magic signin link">>
    [] op = "documentNotification" ->
         << LeftDoubleQuote, opts.document.title, RightDoubleQuote, " ",
            opts.eventName >>
    [] op = "collectionNotification" ->
         << LeftDoubleQuote, opts.collection.name, RightDoubleQuote, " ",
            opts.eventName >>

PreviewText(op, opts) ==
  CASE op = "welcome" ->
         <<"Outline is a place for your team to build and share knowledge.">>
    [] op = "exportSuccess" ->
         <<"Here's your request data export from Outline">>
    [] op = "exportFailure" ->
         <<"Sorry, your requested data export has failed">>
    [] op = "invite" ->
         <<"Outline is a place for your team to build and share knowledge.">>
    [] op = "signin" ->
         <<"Here", RightSingleQuote, "s your link to signin to Outline.">>
    [] op = "documentNotification" ->
         <<opts.actor.name, " ", opts.eventName, " a new document">>
    [] op = "collectionNotification" ->
         <<opts.actor.name, " ", opts.eventName, " a collection">>

\* the html element and the text body, as the template applied to what it is given
Html(op, opts) ==
  CASE op = "welcome" -> [template |-> "WelcomeEmail", props |-> opts]
    [] op = "exportSuccess" -> [template |-> "ExportSuccessEmail", props |-> [id |-> opts.id, teamUrl |-> opts.teamUrl]]
    [] op = "exportFailure" -> [template |-> "ExportFailureEmail", props |-> [teamUrl |-> opts.teamUrl]]
    [] op = "invite" -> [template |-> "InviteEmail", props |-> opts]
    [] op = "signin" -> [template |-> "SigninEmail", props |-> opts]
    [] op = "documentNotification" -> [template |-> "DocumentNotificationEmail", props |-> opts]
    [] op = "collectionNotification" -> [template |-> "CollectionNotificationEmail", props |-> opts]

Text(op, opts) ==
  CASE op = "welcome" -> [template |-> "welcomeEmailText", props |-> opts]
    [] op = "exportSuccess" -> [template |-> "exportEmailSuccessText", props |-> NoObject]
    [] op = "exportFailure" -> [template |-> "exportEmailFailureText", props |-> NoObject]
    [] op = "invite" -> [template |-> "inviteEmailText", props |-> opts]
    [] op = "signin" -> [template |-> "signinEmailText", props |-> opts]
    [] op = "documentNotification" -> [template |-> "documentNotificationEmailText", props |-> opts]
    [] op = "collectionNotification" -> [template |-> "collectionNotificationEmailText", props |-> opts]

\* a message addressed to the team's URL
MessageToTeamUrl(op, opts) ==
  [ to |-> opts.teamUrl, title |-> Title(op, opts),
    previewText |-> PreviewText(op, opts),
    html |-> Html(op, opts), text |-> Text(op, opts) ]

\* the EmailSendOptions a dispatcher operation passes to sendMail
Message(op, opts) ==
  [ to |-> opts.to, title |-> Title(op, opts),
    previewText |-> PreviewText(op, opts),
    html |-> Html(op, opts), text |-> Text(op, opts) ]

\* messages a caller hands to sendMail directly
DirectMessages ==
  { [ to |-> "a@x.com", title |-> <<"Hello">>, previewText |-> <<"Preview">>,
      html |-> [template |-> "Custom", props |-> NoObject],
      text |-> [template |-> "customText", props |-> NoObject] ] }

---------------------------------------------------------------------------
(* Transport resolution: constructor and loadTransport *)

None == "<none>"

\* a resolution that tests for the sandbox before the SMTP host
TransportChoiceSandboxFirst ==
  IF useTestEmailService THEN "sandbox"
  ELSE IF Truthy(env.SMTP_HOST) THEN "smtp"
  ELSE "none"

\* which branch of loadTransport the environment selects
TransportChoice ==
  IF Truthy(env.SMTP_HOST) THEN "smtp"
  ELSE IF useTestEmailService THEN "sandbox"
  ELSE "none"

\* loadTransport, from its call up to its first await (or its return)
loadTransport ==
  /\ loads' = loads + 1
  /\ CASE TransportChoice = "smtp" ->
            /\ transporter' = SmtpTransport
            /\ assigns' = assigns + 1
            /\ pc' = "loaded"
            /\ log' = log
            /\ testAccount' = testAccount
       [] TransportChoice = "sandbox" ->
            /\ log' = Append(log, <<"SMTP_USERNAME not provided, generating test account">>)
            /\ testAccount' = "pending"
            /\ pc' = "createTestAccount"
            /\ UNCHANGED <<transporter, assigns>>
       [] OTHER ->
            /\ pc' = "loaded"
            /\ UNCHANGED <<testAccount, transporter, assigns, log>>

\* const mailer = new Mailer(): the constructor calls loadTransport and does
\* not await it
constructor ==
  /\ pc = "module"
  /\ loadTransport
  /\ UNCHANGED <<env, mails, dispatches, templates, jobs>>

\* nodemailer.createTestAccount() resolved: the sandbox transport is created
testAccountCreated ==
  /\ pc = "createTestAccount"
  /\ testAccount' = "resolved"
  /\ transporter' = EtherealTransport
  /\ assigns' = assigns + 1
  /\ pc' = "loaded"
  /\ UNCHANGED <<env, loads, log, mails, dispatches, templates, jobs>>

ProvisionErrors == {"ETIMEDOUT"}

\* a loadTransport without the try/catch: the rejection becomes its own
OnProvisionFailureUncaught(err) == [ log |-> <<>>, pc |-> "rejected" ]

\* what loadTransport does when createTestAccount rejects with err: the catch
\* block logs the message and the function returns normally
OnProvisionFailure(err) ==
  [ log |-> <<<<"Could not generate test account: ", err>>>>, pc |-> "loaded" ]

\* nodemailer.createTestAccount() rejected
testAccountFailed ==
  /\ pc = "createTestAccount"
  /\ testAccount' = "rejected"
  /\ \E err \in ProvisionErrors :
       /\ log' = log \o OnProvisionFailure(err).log
       /\ pc' = OnProvisionFailure(err).pc
  /\ UNCHANGED <<env, transporter, loads, assigns, mails, dispatches, templates, jobs>>

\* the module has been evaluated: `mailer` exists and callers can reach it
Constructed == pc # "module"

---------------------------------------------------------------------------
(* sendMail *)

\* the html Oy.renderTemplate makes of the element and the message's title
\* and preview text
Rendered(data) ==
  [ element |-> data.html, title |-> data.title, previewText |-> data.previewText ]

\* an envelope whose replyTo is SMTP_REPLY_EMAIL whatever its value
EnvelopeReplyNoFallback(data) ==
  [ from |-> Value(env.SMTP_FROM_EMAIL),
    replyTo |-> Value(env.SMTP_REPLY_EMAIL),
    to |-> data.to,
    subject |-> data.title,
    html |-> Rendered(data),
    text |-> data.text ]

\* the argument of transporter.sendMail(...)
Envelope(data) ==
  [ from |-> Value(env.SMTP_FROM_EMAIL),
    replyTo |-> IF Truthy(env.SMTP_REPLY_EMAIL)
                THEN env.SMTP_REPLY_EMAIL
                ELSE Value(env.SMTP_FROM_EMAIL),
    to |-> data.to,
    subject |-> data.title,
    html |-> Rendered(data),
    text |-> data.text ]

\* a log line that also carries the text body
SendingLogEntryWithText(data) == <<"Sending email", data.title, data.to, data.text>>

\* the line sendMail logs before the send
SendingLogEntry(data) == <<"Sending email", data.title, data.to>>

\* the call of sendMail that found a transporter: rendered, logged, and the
\* send handed to the transporter
SendingMail(data, via, c) ==
  [ data |-> data, via |-> via, call |-> c, seen |-> transporter,
    at |-> testAccount,
    state |-> "pending", effects |-> <<"render", "log", "send">>,
    envelope |-> Envelope(data), logged |-> <<SendingLogEntry(data)>>,
    info |-> None, raised |-> None, thrown |-> None ]

\* the call of sendMail that found no transporter: it returns at once
SkippedMail(data, via, c) ==
  [ data |-> data, via |-> via, call |-> c, seen |-> transporter,
    at |-> testAccount,
    state |-> "resolved", effects |-> <<>>,
    envelope |-> NoObject, logged |-> <<>>,
    info |-> None, raised |-> None, thrown |-> None ]

\* sendMail without its `if (transporter)` test
sendMailCallUnguarded(data, via, c) ==
  /\ log' = Append(log, SendingLogEntry(data))
  /\ mails' = Append(mails, SendingMail(data, via, c))
  /\ UNCHANGED <<transporter, loads, assigns>>

\* sendMail calling loadTransport again when it finds no transporter
sendMailCallReloading(data, via, c) ==
  /\ IF transporter # Null
     THEN /\ log' = Append(log, SendingLogEntry(data))
          /\ mails' = Append(mails, SendingMail(data, via, c))
          /\ loads' = loads
     ELSE /\ log' = log
          /\ mails' = Append(mails, SkippedMail(data, via, c))
          /\ loads' = loads + 1
  /\ UNCHANGED <<transporter, assigns>>

\* sendMail from its call up to `await transporter.sendMail(...)`, or to its
\* return when no transporter is set.  via names the dispatcher operation that
\* made the call ("caller" for a direct call), c the call it belongs to: the
\* pair of a job and its attempt, or of 0 and the number of the caller's call.
\* The transporter is read, never written.
sendMailCall(data, via, c) ==
  /\ IF transporter # Null
     THEN /\ log' = Append(log, SendingLogEntry(data))
          /\ mails' = Append(mails, SendingMail(data, via, c))
     ELSE /\ log' = log
          /\ mails' = Append(mails, SkippedMail(data, via, c))
  /\ UNCHANGED <<transporter, loads, assigns>>

\* a catch block that reports the failure and swallows it
OnSendFailureSwallowed(err) ==
  [ effects |-> IF Truthy(env.SENTRY_DSN) THEN <<"report">> ELSE <<>>,
    state |-> "resolved",
    thrown |-> None ]

\* what the catch block of sendMail does with the failure err of the send
OnSendFailure(err) ==
  [ effects |-> IF Truthy(env.SENTRY_DSN) THEN <<"report", "throw">> ELSE <<"throw">>,
    state |-> "rejected",
    thrown |-> err ]

\* what the transporter's sendMail resolves with
SendInfos == {"250 Accepted"}

\* nodemailer.getTestMessageUrl(info), a function of the send result alone
TestMessageUrl(info) == <<"getTestMessageUrl", info>>

\* what sendMail does once the send has succeeded
OnSendSuccess ==
  [ effects |-> IF useTestEmailService THEN <<"preview">> ELSE <<>>,
    log |-> [ info \in SendInfos |->
                IF useTestEmailService
                THEN << <<"Email Preview URL: ", TestMessageUrl(info)>> >>
                ELSE <<>> ],
    state |-> "resolved" ]

\* number of calls callers have made so far
CallsMade ==
  Cardinality({i \in DOMAIN mails : mails[i].via = "caller"})
  + Cardinality({d \in dispatches : d.call[1] = 0})
  + Len(templates)

\* a caller calls mailer.sendMail(data)
sendMail ==
  /\ Constructed
  /\ CallsMade < MaxOps
  /\ \E data \in DirectMessages : sendMailCall(data, "caller", <<0, CallsMade + 1>>)
  /\ UNCHANGED <<env, pc, testAccount, dispatches, templates, jobs>>

\* the transport's send of mail i succeeds: sendMail resumes after the await
sendSucceeded(i) ==
  /\ mails[i].state = "pending"
  /\ \E info \in SendInfos :
       /\ mails' = [mails EXCEPT ![i].state = OnSendSuccess.state,
                                 ![i].info = info,
                                 ![i].effects = @ \o <<"sent">> \o OnSendSuccess.effects,
                                 ![i].logged = @ \o OnSendSuccess.log[info]]
       /\ log' = log \o OnSendSuccess.log[info]
  /\ UNCHANGED <<env, pc, testAccount, transporter, loads, assigns, dispatches, templates, jobs>>

\* the transport's send of mail i raises err: sendMail resumes in its catch
\* block.  A rejection of a sendMail promise that nobody holds stays with the
\* mail record; the process goes on.
sendFailed(i) ==
  /\ mails[i].state = "pending"
  /\ \E err \in SendErrors :
       mails' = [mails EXCEPT ![i].state = OnSendFailure(err).state,
                              ![i].raised = err,
                              ![i].thrown = OnSendFailure(err).thrown,
                              ![i].effects = @ \o <<"raise">> \o OnSendFailure(err).effects]
  /\ UNCHANGED <<env, pc, testAccount, transporter, loads, assigns, log, dispatches, templates, jobs>>

---------------------------------------------------------------------------
(* The dispatcher operations *)

\* a dispatcher operation called with opts in the call c: <<j, k>> for the
\* k-th attempt of job j by the worker, <<0, n>> for the n-th call of a caller.
\* The arguments of this.sendMail(...) are built first; the promise sendMail
\* returns is neither awaited nor returned, so the operation's own promise is
\* settled when the call returns.
Dispatch(op, opts, c) ==
  IF RenderThrows(op, opts)
  THEN /\ dispatches' = dispatches \cup
            { [ call |-> c, op |-> op, opts |-> opts, mail |-> 0,
                promise |-> "rejected", error |-> "TypeError" ] }
       /\ UNCHANGED <<mails, log, transporter, loads, assigns>>
  ELSE /\ sendMailCall(Message(op, opts), op, c)
       /\ dispatches' = dispatches \cup
            { [ call |-> c, op |-> op, opts |-> opts, mail |-> Len(mails) + 1,
                promise |-> "resolved", error |-> None ] }

\* a caller may make one more call
CallerMayCall == Constructed /\ CallsMade < MaxOps

\* a caller calls mailer.welcome(opts)
welcome ==
  /\ CallerMayCall
  /\ \E opts \in OptsBags : Dispatch("welcome", opts, <<0, CallsMade + 1>>)
  /\ UNCHANGED <<env, pc, testAccount, templates, jobs>>

\* a caller calls mailer.exportSuccess(opts)
exportSuccess ==
  /\ CallerMayCall
  /\ \E opts \in OptsBags : Dispatch("exportSuccess", opts, <<0, CallsMade + 1>>)
  /\ UNCHANGED <<env, pc, testAccount, templates, jobs>>

\* a caller calls mailer.exportFailure(opts)
exportFailure ==
  /\ CallerMayCall
  /\ \E opts \in OptsBags : Dispatch("exportFailure", opts, <<0, CallsMade + 1>>)
  /\ UNCHANGED <<env, pc, testAccount, templates, jobs>>

\* a caller calls mailer.invite(opts)
invite ==
  /\ CallerMayCall
  /\ \E opts \in OptsBags : Dispatch("invite", opts, <<0, CallsMade + 1>>)
  /\ UNCHANGED <<env, pc, testAccount, templates, jobs>>

\* a caller calls mailer.signin(opts)
signin ==
  /\ CallerMayCall
  /\ \E opts \in OptsBags : Dispatch("signin", opts, <<0, CallsMade + 1>>)
  /\ UNCHANGED <<env, pc, testAccount, templates, jobs>>

\* the options of signin calls that differ in the token alone
SigninOpts == {FullOpts, [FullOpts EXCEPT !.token = "T2"]}

\* a caller calls mailer.signin(opts) once more, with one token or the other
signinWithToken ==
  /\ Constructed
  /\ CallsMade < MaxSignins
  /\ \E opts \in SigninOpts : Dispatch("signin", opts, <<0, CallsMade + 1>>)
  /\ UNCHANGED <<env, pc, testAccount, templates, jobs>>

\* a caller calls mailer.documentNotification(opts)
documentNotification ==
  /\ CallerMayCall
  /\ \E opts \in OptsBags : Dispatch("documentNotification", opts, <<0, CallsMade + 1>>)
  /\ UNCHANGED <<env, pc, testAccount, templates, jobs>>

\* a caller calls mailer.collectionNotification(opts)
collectionNotification ==
  /\ CallerMayCall
  /\ \E opts \in OptsBags : Dispatch("collectionNotification", opts, <<0, CallsMade + 1>>)
  /\ UNCHANGED <<env, pc, testAccount, templates, jobs>>

---------------------------------------------------------------------------
(* sendTemplate and the queue *)

\* options allowing one attempt more
JobOptionsSixAttempts ==
  [ attempts |-> 6,
    removeOnComplete |-> TRUE,
    backoff |-> [type |-> "exponential", delay |-> 60 * 1000] ]

\* options that keep a finished job and space the attempts evenly
JobOptionsFixedBackoff ==
  [ attempts |-> 5,
    removeOnComplete |-> FALSE,
    backoff |-> [type |-> "fixed", delay |-> 60 * 1000] ]

\* the options sendTemplate passes to emailsQueue.add
JobOptions ==
  [ attempts |-> 5,
    removeOnComplete |-> TRUE,
    backoff |-> [type |-> "exponential", delay |-> 60 * 1000] ]

\* emailsQueue.add accepted the job: it is stored, waiting for a worker
QueueAdd(data, options) ==
  jobs' = Append(jobs,
    [ data |-> data, options |-> options, attemptsMade |-> 0,
      state |-> "queued", outcomes |-> <<>>,
      removed |-> FALSE, failedHook |-> 0 ])

\* a sendTemplate that refuses to queue while no transporter is set
TemplatePromiseNeedsTransport(accepted) ==
  IF accepted /\ transporter # Null THEN "resolved" ELSE "rejected"

\* the promise sendTemplate returns: that of the awaited emailsQueue.add
TemplatePromise(accepted) == IF accepted THEN "resolved" ELSE "rejected"

\* the errors emailsQueue.add rejects with
QueueErrors == {"ECONNRESET"}

\* sendTemplate(type, opts): awaits emailsQueue.add and nothing else
sendTemplate ==
  /\ Constructed
  /\ CallsMade < MaxOps
  /\ \E type \in TemplateTypes, opts \in OptsBags :
       \/ /\ QueueAdd([type |-> type, opts |-> opts], JobOptions)
          /\ templates' = Append(templates,
               [ type |-> type, opts |-> opts, accepted |-> TRUE,
                 at |-> testAccount, promise |-> TemplatePromise(TRUE),
                 addError |-> None, error |-> None ])
       \/ /\ jobs' = jobs      \* the queue is unreachable: add rejects
          /\ \E err \in QueueErrors :
               templates' = Append(templates,
                 [ type |-> type, opts |-> opts, accepted |-> FALSE,
                   at |-> testAccount, promise |-> TemplatePromise(FALSE),
                   addError |-> err, error |-> err ])
  /\ UNCHANGED <<env, pc, testAccount, transporter, loads, assigns, log, mails, dispatches>>

\* the worker takes job j and starts an attempt: await mailer[type](opts)
processJob(j) ==
  /\ jobs[j].state = "queued"
  /\ IF jobs[j].data.type \in DispatcherOps
     THEN Dispatch(jobs[j].data.type, jobs[j].data.opts,
                   <<j, jobs[j].attemptsMade + 1>>)
     ELSE \* mailer[type] is undefined: calling it throws a TypeError
          UNCHANGED <<mails, log, dispatches, transporter, loads, assigns>>
  /\ jobs' = [jobs EXCEPT ![j].state = "in-flight", ![j].attemptsMade = @ + 1]
  /\ UNCHANGED <<env, pc, testAccount, templates>>

\* how the attempt of job j in flight has ended, as the worker sees it
AttemptOutcome(j) ==
  LET made == {d \in dispatches : d.call = <<j, jobs[j].attemptsMade>>}
  IN  IF made = {} THEN "rejected"
      ELSE (CHOOSE d \in made : TRUE).promise

\* the worker's await has settled: the queue records the attempt
jobSettled(j) ==
  /\ jobs[j].state = "in-flight"
  /\ \/ /\ AttemptOutcome(j) = "resolved"
        /\ jobs' = [jobs EXCEPT ![j].state = "delivered",
                                ![j].outcomes = Append(@, "resolved"),
                                ![j].removed = jobs[j].options.removeOnComplete]
     \/ /\ AttemptOutcome(j) = "rejected"
        /\ jobs[j].attemptsMade < jobs[j].options.attempts
        /\ jobs' = [jobs EXCEPT ![j].state = "queued",
                                ![j].outcomes = Append(@, "rejected")]
     \/ /\ AttemptOutcome(j) = "rejected"
        /\ jobs[j].attemptsMade >= jobs[j].options.attempts
        /\ jobs' = [jobs EXCEPT ![j].state = "exhausted",
                                ![j].outcomes = Append(@, "rejected"),
                                ![j].failedHook = @ + 1]
  /\ UNCHANGED <<env, pc, testAccount, transporter, loads, assigns, log, mails, dispatches, templates>>

---------------------------------------------------------------------------
(* The specification *)

Init ==
  /\ env \in Envs
  /\ pc = "module"
  /\ testAccount = "none"
  /\ transporter = Null
  /\ loads = 0
  /\ assigns = 0
  /\ log = <<>>
  /\ mails = <<>>
  /\ dispatches = {}
  /\ templates = <<>>
  /\ jobs = <<>>

Next ==
  \/ constructor
  \/ testAccountCreated
  \/ testAccountFailed
  \/ sendMail
  \/ \E i \in DOMAIN mails : sendSucceeded(i)
  \/ \E i \in DOMAIN mails : sendFailed(i)
  \/ welcome
  \/ exportSuccess
  \/ exportFailure
  \/ invite
  \/ signin
  \/ documentNotification
  \/ collectionNotification
  \/ sendTemplate
  \/ \E j \in DOMAIN jobs : processJob(j)
  \/ \E j \in DOMAIN jobs : jobSettled(j)

Spec == Init /\ [][Next]_vars

\* The mailer under every combination of the variables its transport
\* configuration and its envelope read, with direct and dispatched sends
InitConfig ==
  /\ env \in ConfigEnvs
  /\ pc = "module"
  /\ testAccount = "none"
  /\ transporter = Null
  /\ loads = 0
  /\ assigns = 0
  /\ log = <<>>
  /\ mails = <<>>
  /\ dispatches = {}
  /\ templates = <<>>
  /\ jobs = <<>>

NextConfig ==
  \/ constructor
  \/ testAccountCreated
  \/ testAccountFailed
  \/ sendMail
  \/ invite
  \/ \E i \in DOMAIN mails : sendSucceeded(i)
  \/ \E i \in DOMAIN mails : sendFailed(i)

SpecConfig == InitConfig /\ [][NextConfig]_vars

\* The mailer with callers that sign in, several times and with different
\* tokens
NextSignin ==
  \/ constructor
  \/ testAccountCreated
  \/ testAccountFailed
  \/ signinWithToken
  \/ \E i \in DOMAIN mails : sendSucceeded(i)
  \/ \E i \in DOMAIN mails : sendFailed(i)

SpecSignin == Init /\ [][NextSignin]_vars

---------------------------------------------------------------------------
(* Helpers of the properties *)

\* number of occurrences of e in the sequence q
Count(q, e) == Cardinality({k \in DOMAIN q : q[k] = e})

\* position of the first e in q (0 when there is none)
FirstAt(q, e) ==
  IF \E k \in DOMAIN q : q[k] = e
  THEN CHOOSE k \in DOMAIN q : q[k] = e /\ \A l \in DOMAIN q : q[l] = e => k <= l
  ELSE 0

\* the sendMail calls made while the worker attempted job j
SendsOf(j) ==
  { m \in DOMAIN mails :
      mails[m].via # "caller" /\ mails[m].call[1] = j }

---------------------------------------------------------------------------
(* Properties *)

\* C1: whenever the transport's send fails during the sendMail call a
\* dispatcher operation made, the promise of that dispatcher operation is
\* rejected with that very failure.
C1_DispatcherRejectsWithSendFailure ==
  \A d \in dispatches :
    (d.mail # 0 /\ mails[d.mail].raised # None)
      => /\ d.promise = "rejected"
         /\ d.error = mails[d.mail].raised

\* C2: a job of a dispatcher type whose sends were all made on a resolved
\* transport and have all failed is never delivered; once it is in a terminal
\* state it is exhausted, after exactly 5 attempts, with the failure hook fired
\* exactly once.
C2_AlwaysFailingJobIsExhausted ==
  \A j \in DOMAIN jobs :
    ( /\ jobs[j].data.type \in DispatcherOps
      /\ SendsOf(j) # {}
      /\ \A m \in SendsOf(j) : mails[m].seen # Null /\ mails[m].raised # None )
    => /\ jobs[j].state # "delivered"
       /\ jobs[j].state = "exhausted"
            => jobs[j].attemptsMade = 5 /\ jobs[j].failedHook = 1

\* C3 as stated: whenever the transport's send raised, sendMail rejects with
\* the same failure and has reported it exactly once, before throwing.
C3_ReportsExactlyOnce ==
  \A m \in DOMAIN mails :
    mails[m].raised # None
      => /\ mails[m].state = "rejected"
         /\ mails[m].thrown = mails[m].raised
         /\ Count(mails[m].effects, "report") = 1
         /\ FirstAt(mails[m].effects, "report") < FirstAt(mails[m].effects, "throw")

\* C3 amended: whenever the transport's send raised, sendMail rejects with the
\* same failure; it has reported it exactly once, before throwing, when
\* SENTRY_DSN is set to a non-empty value, and not at all otherwise.
C3_ReportsOnceWhenConfigured ==
  \A m \in DOMAIN mails :
    mails[m].raised # None
      => /\ mails[m].state = "rejected"
         /\ mails[m].thrown = mails[m].raised
         /\ Count(mails[m].effects, "throw") = 1
         /\ IF env.SENTRY_DSN \notin {Unset, ""}
            THEN /\ Count(mails[m].effects, "report") = 1
                 /\ FirstAt(mails[m].effects, "report")
                      < FirstAt(mails[m].effects, "throw")
            ELSE Count(mails[m].effects, "report") = 0

\* C3 witness: a send raised with SENTRY_DSN configured and sendMail has rejected
C3_Witness ==
  \E m \in DOMAIN mails :
    /\ mails[m].raised = "EAUTH"
    /\ mails[m].state = "rejected"
    /\ env.SENTRY_DSN \notin {Unset, ""}

\* C4: a sendTemplate call whose type is not a known notification type
\* (neither a dispatcher operation nor a tag of EmailTypes) fails, and no job
\* of such a type is ever in the queue.
C4_UnknownTypeFailsFast ==
  /\ \A k \in DOMAIN templates :
       templates[k].type \notin (DispatcherOps \cup EmailTypes)
         => templates[k].promise = "rejected"
  /\ \A j \in DOMAIN jobs :
       jobs[j].data.type \in (DispatcherOps \cup EmailTypes)

\* C5: a sendMail call that found no transporter has resolved, without a
\* transport send, without a report to the error sink and without throwing.
C5_NoTransportIsNoOp ==
  \A m \in DOMAIN mails :
    mails[m].seen = Null
      => /\ mails[m].state = "resolved"
         /\ mails[m].effects = <<>>
         /\ mails[m].raised = None
         /\ mails[m].thrown = None

\* C5 witness: a caller's sendMail call found no transporter
C5_Witness ==
  \E m \in DOMAIN mails : mails[m].seen = Null /\ mails[m].via = "caller"

\* the attempts of job j, all but the last, were rejected
EarlierAttemptsFailed(j) ==
  \A k \in 1 .. (Len(jobs[j].outcomes) - 1) : jobs[j].outcomes[k] = "rejected"

C6_JobInvariant ==
  \A j \in DOMAIN jobs :
    /\ jobs[j].attemptsMade <= 5
    /\ Len(jobs[j].outcomes) <= jobs[j].attemptsMade
    /\ EarlierAttemptsFailed(j)
    /\ jobs[j].state = "delivered"
         <=> (jobs[j].outcomes # <<>>
              /\ jobs[j].outcomes[Len(jobs[j].outcomes)] = "resolved")
    /\ jobs[j].state = "delivered" => jobs[j].removed
    /\ jobs[j].state = "exhausted"
         <=> (Len(jobs[j].outcomes) = 5
              /\ \A k \in 1 .. 5 : jobs[j].outcomes[k] = "rejected")

C6_NoAttemptAfterTerminal ==
  \A j \in DOMAIN jobs :
    jobs[j].state \in {"delivered", "exhausted"} => jobs'[j] = jobs[j]

C7_SendTemplateFrame ==
  Len(templates') > Len(templates)
    => UNCHANGED <<transporter, pc, testAccount, loads, assigns, mails, dispatches, log>>

\* C7: a sendTemplate call succeeds whenever the queue accepted its job,
\* whatever the state of the transport, and the call leaves the transporter
\* alone and makes no sendMail call and no transport send.
C7_SendTemplateIgnoresTransport ==
  /\ [](\A k \in DOMAIN templates :
          templates[k].accepted => templates[k].promise = "resolved")
  /\ [][C7_SendTemplateFrame]_vars

\* C7 witness: a job was accepted while sandbox provisioning was still pending
C7_Witness ==
  \E k \in DOMAIN templates :
    /\ templates[k].accepted
    /\ templates[k].at = "pending"
    /\ templates[k].promise = "resolved"
    /\ transporter = Null

\* C8: with an SMTP host configured (set and not empty) the transporter is the
\* SMTP transport from construction on; else in development mode with no SMTP
\* username configured it is the sandbox transport exactly once provisioning
\* has succeeded and unset before; in every other case it is unset.
C8_DecisionOrder ==
  IF env.SMTP_HOST \notin {Unset, ""}
  THEN transporter = IF Constructed THEN SmtpTransport ELSE Null
  ELSE IF env.NODE_ENV = "development" /\ env.SMTP_USERNAME \in {Unset, ""}
  THEN transporter = IF testAccount = "resolved" THEN EtherealTransport ELSE Null
  ELSE transporter = Null

\* C8 witness: no host, development mode, no username: the sandbox transport
\* is in place after provisioning succeeded
C8_Witness ==
  /\ env.SMTP_HOST \in {Unset, ""}
  /\ env.SMTP_USERNAME = ""
  /\ testAccount = "resolved"
  /\ transporter = EtherealTransport

C9_ResolvedOnce ==
  /\ loads = (IF Constructed THEN 1 ELSE 0)
  /\ assigns <= 1
  /\ (transporter # Null) <=> (assigns = 1)

C9_Immutable ==
  /\ transporter # Null => transporter' = transporter
  /\ (mails' # mails \/ dispatches' # dispatches \/ templates' # templates)
       => UNCHANGED <<transporter, loads, assigns>>

\* C9: loadTransport runs exactly once, from the constructor; the transporter
\* is assigned at most once and never changes once it is set; no step of
\* sendMail, of a dispatcher operation or of sendTemplate resolves it again or
\* writes it.
C9_TransportResolvedOnce ==
  []C9_ResolvedOnce /\ [][C9_Immutable]_vars

\* C9 witness: a sendMail call has used the transporter that was assigned once
C9_Witness ==
  /\ assigns = 1
  /\ loads = 1
  /\ \E m \in DOMAIN mails : mails[m].seen = transporter /\ mails[m].state # "pending"

\* C10: once sandbox provisioning has failed, the failure is in the log,
\* loadTransport has returned normally, the transporter is unset, and every
\* sendMail call made since has resolved as a no-op.
C10_ProvisioningFailureIsNonFatal ==
  testAccount = "rejected"
    => /\ pc = "loaded"
       /\ transporter = Null
       /\ \E k \in DOMAIN log, err \in ProvisionErrors :
            log[k] = <<"Could not generate test account: ", err>>
       /\ \A m \in DOMAIN mails :
            mails[m].at = "rejected"
              => mails[m].state = "resolved" /\ mails[m].effects = <<>>

\* C10 witness: provisioning failed and a sendMail call was made afterwards
C10_Witness ==
  /\ testAccount = "rejected"
  /\ \E m \in DOMAIN mails : mails[m].at = "rejected"


---------------------------------------------------------------------------
(* Preview link, dispatcher operations, subjects, early calls, sendTemplate *)

\* the effect e is among the effects of mail m
Did(m, e) == Count(mails[m].effects, e) >= 1

\* C11: a preview link is logged for a sendMail call exactly when its send
\* succeeded and the transport it used is the sandbox transport; never on a
\* real SMTP transport and never after a failed send.
C11_PreviewOnlyForSandbox ==
  \A m \in DOMAIN mails :
    mails[m].state # "pending"
      => ( Did(m, "preview")
             <=> (Did(m, "sent") /\ mails[m].seen.kind = "ethereal") )

\* the sendMail calls made within the invocation d of a dispatcher operation
CallsOf(d) ==
  { m \in DOMAIN mails : mails[m].call = d.call /\ mails[m].via # "caller" }

\* the message of mail m is addressed to the recipient of d and carries the
\* four rendering fields
WellFormedCall(d, m) ==
  /\ m = d.mail
  /\ mails[m].via = d.op
  /\ mails[m].data.to = d.opts.to
  /\ {"title", "previewText", "html", "text"} \subseteq DOMAIN mails[m].data
  /\ mails[m].data.title # <<>>
  /\ mails[m].data.previewText # <<>>
  /\ mails[m].data.html.template # Undefined
  /\ mails[m].data.text.template # Undefined

\* every transport send is the send of one sendMail call, made at most once
SendsComeFromSendMail ==
  \A m \in DOMAIN mails :
    /\ Count(mails[m].effects, "send") <= 1
    /\ mails[m].via # "caller"
         => \E d \in dispatches : d.call = mails[m].call /\ d.mail = m

\* C12 as stated: every invocation of a dispatcher operation calls sendMail
\* exactly once, with the recipient opts.to and the four rendering fields, and
\* every transport send originates from sendMail.
C12_ExactlyOneSendMailPerInvocation ==
  /\ \A d \in dispatches :
       /\ Cardinality(CallsOf(d)) = 1
       /\ \A m \in CallsOf(d) : WellFormedCall(d, m)
  /\ SendsComeFromSendMail

\* C12 amended: every invocation of a dispatcher operation calls sendMail at
\* most once: exactly once, with the recipient opts.to and the four rendering
\* fields, when the message can be built, and not at all when building it
\* throws (documentNotification without document or actor,
\* collectionNotification without collection or actor); every transport send
\* originates from sendMail.
C12_OneSendMailUnlessBuildingThrows ==
  /\ \A d \in dispatches :
       /\ Cardinality(CallsOf(d)) = IF RenderThrows(d.op, d.opts) THEN 0 ELSE 1
       /\ RenderThrows(d.op, d.opts) => d.promise = "rejected" /\ d.mail = 0
       /\ \A m \in CallsOf(d) : WellFormedCall(d, m)
  /\ SendsComeFromSendMail

C12_Witness ==
  /\ \E d \in dispatches :
       /\ d.op = "documentNotification"
       /\ d.opts = FullOpts
       /\ CallsOf(d) # {}
       /\ \A m \in CallsOf(d) : Did(m, "send") /\ mails[m].data.to = "a@x.com"
  /\ \A d \in dispatches : ~RenderThrows(d.op, d.opts)

\* the quote characters of the subject patterns as the specification writes them
Apostrophe == "'"
DoubleQuote == "\""

\* the subject of the sendMail call the invocation d made is the sequence t
SubjectIs(d, t) == \A m \in CallsOf(d) : mails[m].data.title = t

C14_NoCallDroppedBeforeResolution ==
  (Constructed /\ (Truthy(env.SMTP_HOST) \/ testAccount = "resolved"))
    => \A m \in DOMAIN mails : Did(m, "send")

\* the step completes a call of sendTemplate
TemplateCompletes == Len(templates') = Len(templates) + 1

\* the job a successful sendTemplate(type, opts) leaves in the queue
ExpectedJob(type, opts) ==
  [ data |-> [type |-> type, opts |-> opts],
    options |-> [ attempts |-> 5, removeOnComplete |-> TRUE,
                  backoff |-> [type |-> "exponential", delay |-> 60000] ],
    attemptsMade |-> 0, state |-> "queued", outcomes |-> <<>>,
    removed |-> FALSE, failedHook |-> 0 ]

\* a step that completes a call of sendTemplate does so with the outcome of
\* the queue's add: accepted, the call resolves and exactly one job is added,
\* with the type, the opts and the options, and no attempt made; refused, the
\* call rejects with the add's error and the queue is as it was
C15_CompletionStep ==
  TemplateCompletes =>
    LET t == templates'[Len(templates')]
    IN  /\ templates' = Append(templates, t)
        /\ t.accepted
             => /\ t.promise = "resolved" /\ t.error = None
                /\ jobs' = Append(jobs, ExpectedJob(t.type, t.opts))
        /\ ~t.accepted
             => /\ t.promise = "rejected"
                /\ t.addError \in QueueErrors /\ t.error = t.addError
                /\ jobs' = jobs

\* jobs are added by sendTemplate alone, one per call that resolved
C15_OneJobPerAcceptedCall ==
  /\ Len(jobs) = Cardinality({t \in DOMAIN templates : templates[t].promise = "resolved"})
  /\ \A j \in DOMAIN jobs :
       \E t \in DOMAIN templates :
         /\ templates[t].promise = "resolved"
         /\ jobs[j].data = [type |-> templates[t].type, opts |-> templates[t].opts]
         /\ jobs[j].options = ExpectedJob(templates[t].type, templates[t].opts).options

\* C15: sendTemplate completes once the queue's add has accepted the job and
\* without waiting for an attempt; when the add fails it fails with that error
\* and no job exists; each successful call adds exactly one job with the type,
\* the opts and the options attempts 5, removeOnComplete true, exponential
\* backoff from 60000 ms.
C15_SendTemplateFollowsQueueAdd ==
  /\ []C15_OneJobPerAcceptedCall
  /\ [][C15_CompletionStep /\ (~TemplateCompletes => Len(jobs') = Len(jobs))]_vars

C15_Witness ==
  /\ Len(templates) = 1
  /\ templates[1].promise = "resolved"
  /\ templates[1].type = "welcome"
  /\ Len(jobs) = 1
  /\ jobs[1].attemptsMade = 0
  /\ jobs[1].options.backoff.delay = 60000


---------------------------------------------------------------------------
(* Envelope, transport configuration, and what the log depends on *)

\* C16: a sendMail call that found a transport hands it exactly one envelope:
\* to, subject and text are the message's recipient, title and text, from is
\* SMTP_FROM_EMAIL, and replyTo is SMTP_REPLY_EMAIL when that is set and not
\* empty, SMTP_FROM_EMAIL otherwise.
C16_EnvelopeFromMessageAndConfiguration ==
  \A m \in DOMAIN mails :
    mails[m].seen # Null
      => /\ Count(mails[m].effects, "send") = 1
         /\ mails[m].envelope.to = mails[m].data.to
         /\ mails[m].envelope.subject = mails[m].data.title
         /\ mails[m].envelope.text = mails[m].data.text
         /\ mails[m].envelope.from =
              (IF env.SMTP_FROM_EMAIL = Unset THEN Undefined ELSE env.SMTP_FROM_EMAIL)
         /\ mails[m].envelope.replyTo =
              (IF env.SMTP_REPLY_EMAIL \in {Unset, ""}
               THEN mails[m].envelope.from
               ELSE env.SMTP_REPLY_EMAIL)

C16_Witness ==
  /\ env.SMTP_REPLY_EMAIL = ""
  /\ env.SMTP_FROM_EMAIL = "hello@acme.example"
  /\ \E m \in DOMAIN mails :
       /\ Did(m, "sent")
       /\ mails[m].envelope.replyTo = "hello@acme.example"
       /\ mails[m].envelope.to = "a@x.com"

\* C17: with SMTP_HOST set, the transporter exists as soon as the constructor
\* has returned, assigned once, and its configuration has secure equal to
\* (SMTP_SECURE = "true") when SMTP_SECURE is defined and to (NODE_ENV =
\* "production") otherwise, auth exactly when SMTP_USERNAME is set and not
\* empty, and tls ciphers exactly when SMTP_TLS_CIPHERS is defined.
C17_SmtpConfigFromEnvironment ==
  (Constructed /\ Truthy(env.SMTP_HOST))
    => /\ transporter.kind = "smtp"
       /\ assigns = 1
       /\ testAccount = "none"
       /\ transporter.config.host = env.SMTP_HOST
       /\ transporter.config.secure =
            (IF env.SMTP_SECURE # Unset
             THEN env.SMTP_SECURE = "true"
             ELSE env.NODE_ENV = "production")
       /\ (transporter.config.auth # NoObject) <=> Truthy(env.SMTP_USERNAME)
       /\ transporter.config.auth # NoObject
            => transporter.config.auth.user = env.SMTP_USERNAME
       /\ (transporter.config.tls # NoObject) <=> (env.SMTP_TLS_CIPHERS # Unset)
       /\ transporter.config.tls # NoObject
            => transporter.config.tls.ciphers = env.SMTP_TLS_CIPHERS

C17_Witness ==
  /\ pc = "loaded"
  /\ mails = <<>>
  /\ env.SMTP_HOST = "smtp.example.com"
  /\ env.SMTP_SECURE = "false"
  /\ env.NODE_ENV = "production"
  /\ env.SMTP_USERNAME = ""
  /\ env.SMTP_TLS_CIPHERS = ""
  /\ transporter.kind = "smtp"
  /\ transporter.config.secure = FALSE
  /\ transporter.config.auth = NoObject
  /\ transporter.config.tls = [ciphers |-> ""]

\* the invocations d1 and d2 of signin differ in the token at most, and their
\* sendMail calls met the same transporter and had the same outcome
SameButToken(d1, d2) ==
  /\ d1.op = "signin" /\ d2.op = "signin"
  /\ d1.mail # 0 /\ d2.mail # 0
  /\ [d1.opts EXCEPT !.token = "*"] = [d2.opts EXCEPT !.token = "*"]
  /\ mails[d1.mail].seen = mails[d2.mail].seen
  /\ mails[d1.mail].state = mails[d2.mail].state
  /\ mails[d1.mail].info = mails[d2.mail].info
  /\ mails[d1.mail].raised = mails[d2.mail].raised

\* C18: two signin calls that differ only in the token, with the same
\* transport state and outcome, produce the same sequence of log entries, and
\* every entry a call produced is in the mailer's log.
C18_LogIndependentOfToken ==
  /\ \A d1, d2 \in dispatches :
       SameButToken(d1, d2) => mails[d1.mail].logged = mails[d2.mail].logged
  /\ \A m \in DOMAIN mails :
       \A k \in DOMAIN mails[m].logged :
         \E l \in DOMAIN log : log[l] = mails[m].logged[k]

C18_Witness ==
  \E d1, d2 \in dispatches :
    /\ SameButToken(d1, d2)
    /\ d1.opts.token = "T1" /\ d2.opts.token = "T2"
    /\ mails[d1.mail].seen.kind = "ethereal"
    /\ Did(d1.mail, "preview") /\ Did(d2.mail, "preview")
    /\ Len(mails[d1.mail].logged) = 2
    /\ mails[d1.mail].logged = mails[d2.mail].logged

====
